---- MODULE Spec2Model ----
(***************************************************************************)
(* A model of curdling's installer environment (curdling/install.py):      *)
(* the Install object, its feed/pipeline wiring, the retrieve-and-build    *)
(* polling loop, reconciliation (load_installer) and the run() driver.     *)
(*                                                                         *)
(* The services (Finder, Downloader, Curdler, Dependencer, Installer,      *)
(* Uploader), the Mapping and the util helpers are imported by install.py  *)
(* from modules that are described by the design document only; their      *)
(* models below follow that description.                                   *)
(***************************************************************************)
EXTENDS Naturals, Sequences, FiniteSets, TLC

\* Worker threads in each service's pool.
NumWorkers == 2

None == "None"

(***************************************************************************)
(* The world: requirement strings, URLs, and what the external             *)
(* collaborators answer for them.                                          *)
(***************************************************************************)
UrlX == "http://x/lib-2.tar.gz"
UrlY == "http://y/lib-2.tar.gz"
UrlApp == "http://x/app-1.whl"
UrlLib1 == "http://x/lib-1.tar.gz"

Urls == {UrlX, UrlY, UrlApp, UrlLib1}

Raw == {"App", "app", "lib==1", "lib==2", "lib>=1", "Setuptools", "setuptools", UrlX}

PACKAGE_BLACKLIST == {"setuptools"}

\* util.safe_name: lower-cases the name and canonicalises separators.
safe_name(r) ==
  CASE r = "App" -> "app"
    [] r = "Setuptools" -> "setuptools"
    [] OTHER -> r

\* util.is_url
is_url(r) == r \in Urls

\* util.parse_requirement(r).name
PackageName(r) ==
  CASE r \in {"App", "app"} -> "app"
    [] r \in {"lib==1", "lib==2", "lib>=1"} -> "lib"
    [] r \in {"Setuptools", "setuptools"} -> "setuptools"
    [] OTHER -> "lib"

\* os.path.basename
basename(u) ==
  CASE u \in {UrlX, UrlY} -> "lib-2.tar.gz"
    [] u = UrlApp -> "app-1.whl"
    [] u = UrlLib1 -> "lib-1.tar.gz"
    [] OTHER -> u

\* What the upstream indexes answer to the Finder for a requirement.
FinderUrl(r) ==
  CASE r \in {"App", "app"} -> UrlApp
    [] r = "lib==1" -> UrlLib1
    [] r = "lib==2" -> UrlX
    [] r = "lib>=1" -> UrlY
    [] OTHER -> None

\* The Downloader classifies what it fetched by the file name's suffix.
IsWheelName(f) == f \in {"app-1.whl", "lib-1.whl", "lib-2.whl"}

\* The wheel the Curdler builds out of a source archive.
BuiltWheel(tarball) ==
  CASE tarball = "lib-2.tar.gz" -> "lib-2.whl"
    [] tarball = "lib-1.tar.gz" -> "lib-1.whl"
    [] OTHER -> "app-1.whl"

\* The dependencies a wheel declares in its metadata.
DeclaredDependencies(wheel) ==
  CASE wheel = "app-1.whl" -> <<"lib==1", "Setuptools">>
    [] OTHER -> << >>

Services == {"finder", "downloader", "curdler", "dependencer", "installer", "uploader"}
PipelineServices == {"finder", "downloader", "curdler", "dependencer"}

Workers == 1..NumWorkers

\* A job: the keyword arguments (**data) handed from service to service.
Job(requirement, dependency_of) ==
  [requirement |-> requirement, dependency_of |-> dependency_of,
   url |-> None, tarball |-> None, wheel |-> None]

NoJob == Job(None, None)

\* An ArtifactIndex content: the keys "<requirement>;whl" and
\* "<requirement>;~whl" it can answer, with the locators it returns.
EmptyIndex == [whl |-> [r \in {} |-> None], src |-> [r \in {} |-> None]]

IndexWithWheel ==
  [whl |-> [r \in {"app", "App"} |-> "app-1.whl"], src |-> [r \in {} |-> None]]

IndexWithSources ==
  [whl |-> [r \in {} |-> None],
   src |-> [r \in {"lib==2", "lib>=1"} |-> "lib-2.tar.gz"]]

\* A wheel and a source archive for the same requirement, and a source
\* archive for a URL requirement.
IndexWithBoth ==
  [whl |-> [r \in {"lib==2"} |-> "lib-2.whl"],
   src |-> [r \in {"lib==2", UrlX} |-> "lib-2.tar.gz"]]

\* The runs explored: the packages given on the command line, the content
\* of the ArtifactIndex, and the upload option.
Scenarios ==
  {[packages |-> p, index |-> EmptyIndex, upload |-> FALSE] :
     p \in {<<"App", "app">>, <<"app", "lib==2">>, <<"lib==2", "lib>=1">>,
            <<UrlX, "lib>=1">>, <<"lib==2", UrlX>>, <<"Setuptools", "lib==1">>}}
  \cup
  {[packages |-> <<"app", "lib==1">>, index |-> IndexWithWheel, upload |-> u] :
     u \in BOOLEAN}
  \cup
  {[packages |-> <<"lib==2", "lib>=1">>, index |-> IndexWithSources, upload |-> FALSE],
   [packages |-> <<"lib==2", UrlX>>, index |-> IndexWithBoth, upload |-> FALSE]}

VARIABLES
  conf,                 \* Install.conf: the scenario's index and upload option
  requirements,         \* Install.requirements
  dependencies,         \* Install.dependencies
  stats,                \* Install.stats
  wheels,               \* Install.wheels
  errors,               \* Install.errors
  repeated,             \* Install.repeated
  squeue,               \* each service's input queue
  worker,               \* each service's worker threads
  started,              \* the services whose start() was called
  processing_packages,  \* Downloader.processing_packages
  main,                 \* the main thread: the command-line tool and run()
  admitted,             \* history: the queue() calls each service received
  emitted,              \* history: the signals each service emitted
  dropped,              \* history: the times the uniqueness guard fired
  fed,                  \* history: the jobs feed queued, per requirement
  maestro               \* a Maestro object (curdling.maestro)

vars == <<conf, requirements, dependencies, stats, wheels, errors, repeated,
          squeue, worker, started, processing_packages, main, admitted,
          emitted, dropped, fed, maestro>>

env == <<requirements, dependencies, stats, wheels, errors, repeated>>

\* A worker thread: its position, its job, the dependency_found signals it
\* has still to emit, and the counter value it read for a `+= 1`.
IdleWorker == [pc |-> "idle", job |-> NoJob, todo |-> << >>, read |-> 0]

\* Maestro.__init__; calls is the history of the calls made on it: the
\* operation and the name of the package.
NewMaestro ==
  [mapping |-> [n \in {} |-> None], built |-> {}, failed |-> {},
   calls |-> {}]

\* Install.__init__, and the command line parsed into the packages to request.
InstallInit(sc) ==
  /\ conf = [index |-> sc.index, upload |-> sc.upload]
  /\ main = [pc |-> "start", packages |-> sc.packages, data |-> NoJob,
             total |-> 0, built |-> 0, failed |-> 0,
             chosen |-> {}, report |-> {}, signals |-> << >>]
  /\ requirements = {}
  /\ dependencies = [r \in {} |-> None]
  /\ stats = [s \in Services |-> 0]
  /\ wheels = [r \in {} |-> None]
  /\ errors = [r \in {} |-> None]
  /\ repeated = 0
  /\ squeue = [s \in Services |-> << >>]
  /\ worker = [s \in Services |-> [w \in Workers |-> IdleWorker]]
  /\ started = {}
  /\ processing_packages = {}
  /\ admitted = [s \in Services |-> [r \in Raw |-> 0]]
  /\ emitted = [s \in Services |->
                  [signal \in {"finished", "failed"} |-> [r \in Raw |-> 0]]]
  /\ dropped = 0
  /\ fed = [r \in Raw |-> 0]
  /\ maestro = NewMaestro

Init == \E sc \in Scenarios : InstallInit(sc)

\* A dict after d[k] = v.
Put(d, k, v) == [x \in DOMAIN d \cup {k} |-> IF x = k THEN v ELSE d[x]]

(***************************************************************************)
(* Install.feed                                                            *)
(***************************************************************************)
\* A slip in feed's first test: the negation of is_url is lost.
BlacklistedUrlOnly(requirement) ==
  is_url(requirement) /\ PackageName(requirement) \in PACKAGE_BLACKLIST

\* feed's first test: a non-URL requirement whose package is blacklisted.
Blacklisted(requirement) ==
  ~is_url(requirement) /\ PackageName(requirement) \in PACKAGE_BLACKLIST

\* A slip in feed: the test for a known requirement is lost.
feed_returns_when_blacklisted(data) ==
  Blacklisted(safe_name(data.requirement))

\* feed returns before saving anything: blacklisted, or already known.
feed_returns(data) ==
  LET requirement == safe_name(data.requirement) IN
    Blacklisted(requirement) \/ requirement \in requirements

set_wheel(data) == data.requirement \in DOMAIN conf.index.whl

set_tarball(data) == data.requirement \in DOMAIN conf.index.src

set_url(data) == is_url(data.requirement)

\* A slip in feed's routing: the source archive is looked up before the wheel.
feed_service_source_first(data) ==
  IF set_tarball(data) THEN "curdler"
  ELSE IF set_wheel(data) THEN "dependencer"
  ELSE IF set_url(data) THEN "downloader"
  ELSE "finder"

\* The service feed hands the requirement to.
feed_service(data) ==
  IF set_wheel(data) THEN "dependencer"
  ELSE IF set_tarball(data) THEN "curdler"
  ELSE IF set_url(data) THEN "downloader"
  ELSE "finder"

\* The data feed queues: what set_wheel, set_tarball or set_url stored in it.
feed_data(data) ==
  IF set_wheel(data)
    THEN [data EXCEPT !.wheel = conf.index.whl[data.requirement]]
  ELSE IF set_tarball(data)
    THEN [data EXCEPT !.tarball = conf.index.src[data.requirement]]
  ELSE IF set_url(data) THEN [data EXCEPT !.url = data.requirement]
  ELSE data

\* Service.queue
queue(q, service, data) == [q EXCEPT ![service] = Append(@, data)]

Admit(a, service, data) ==
  [a EXCEPT ![service][data.requirement] = @ + 1]

\* A slip in feed: the requirement set is assigned, not added to.
feed_save_assigning(data) ==
  LET requirement == safe_name(data.requirement) IN
    /\ requirements' = {requirement}
    /\ dependencies' = Put(dependencies, requirement, data.dependency_of)
    /\ squeue' = queue(squeue, feed_service(data), feed_data(data))
    /\ admitted' = Admit(admitted, feed_service(data), data)
    /\ fed' = [fed EXCEPT ![requirement] = @ + 1]
    /\ UNCHANGED <<conf, maestro, emitted, dropped, stats, wheels, errors,
                   repeated, started, processing_packages>>

\* feed from "Save the requirement" to the end: the requirement is saved
\* and the chosen service is fed.
feed_save(data) ==
  LET requirement == safe_name(data.requirement) IN
    /\ requirements' = requirements \cup {requirement}
    /\ dependencies' = Put(dependencies, requirement, data.dependency_of)
    /\ squeue' = queue(squeue, feed_service(data), feed_data(data))
    /\ admitted' = Admit(admitted, feed_service(data), data)
    /\ fed' = [fed EXCEPT ![requirement] = @ + 1]
    /\ UNCHANGED <<conf, maestro, emitted, dropped, stats, wheels, errors, repeated, started,
                   processing_packages>>

(***************************************************************************)
(* The main thread, first part: the tool starts the services and requests  *)
(* every package.                                                          *)
(***************************************************************************)
\* Install.start
MainStart ==
  /\ main.pc = "start"
  /\ started' = started \cup PipelineServices
  /\ main' = [main EXCEPT !.pc = "request"]
  /\ UNCHANGED <<conf, maestro, emitted, dropped, env, squeue, worker, processing_packages, admitted, fed>>

\* feed('main', requirement=pkg) up to its two early returns.
MainFeed ==
  /\ main.pc = "request"
  /\ main.packages # << >>
  /\ LET data == Job(Head(main.packages), None) IN
       main' = IF feed_returns(data)
                 THEN [main EXCEPT !.packages = Tail(@)]
                 ELSE [main EXCEPT !.packages = Tail(@), !.data = data,
                                   !.pc = "feed_save"]
  /\ UNCHANGED <<conf, maestro, emitted, dropped, env, squeue, worker, started, processing_packages,
                 admitted, fed>>

MainFeedSave ==
  /\ main.pc = "feed_save"
  /\ feed_save(main.data)
  /\ main' = [main EXCEPT !.pc = "request", !.data = NoJob]
  /\ UNCHANGED worker

\* Every package was requested: the tool calls run().
MainRun ==
  /\ main.pc = "request"
  /\ main.packages = << >>
  /\ main' = [main EXCEPT !.pc = "poll_total"]
  /\ UNCHANGED <<conf, maestro, emitted, dropped, env, squeue, worker, started, processing_packages,
                 admitted, fed>>

(***************************************************************************)
(* The handlers Install.pipeline connects to the services' signals.        *)
(***************************************************************************)
\* unique: the wrapped queue is called unless the tarball is being processed.
unique(data) == basename(data.url) \notin processing_packages

\* A slip in only: the field is not tested.
only_untested(data, field) == TRUE

\* only: the wrapped queue is called when the field is set.
only(data, field) == data[field] # None

\* A slip in update_count: the counter of every service is incremented.
update_count_of_all(st, name) == [s \in DOMAIN st |-> st[s] + 1]

\* update_count
update_count(st, name) == [st EXCEPT ![name] = @ + 1]

\* update_error_list
update_error_list(errs, data, exception) == Put(errs, data.requirement, exception)

\* queue_install
queue_install(whls, data) == Put(whls, data.requirement, data.wheel)

(***************************************************************************)
(* A service's worker thread.                                              *)
(***************************************************************************)
\* The workers are interchangeable: the idle worker of lowest number is
\* the one that gets the next job.
NextIdle(s, w) ==
  /\ worker[s][w].pc = "idle"
  /\ \A v \in Workers : v < w => worker[s][v].pc # "idle"

\* A worker takes the job at the head of its service's queue.
Take(s, w) ==
  /\ s \in started
  /\ NextIdle(s, w)
  /\ squeue[s] # << >>
  /\ worker' = [worker EXCEPT ![s][w] =
                  [pc |-> "work", job |-> Head(squeue[s]), todo |-> << >>,
                   read |-> 0]]
  /\ squeue' = [squeue EXCEPT ![s] = Tail(@)]
  /\ processing_packages' =
       IF s = "downloader"
         THEN processing_packages \cup {basename(Head(squeue[s]).url)}
         ELSE processing_packages
  /\ UNCHANGED <<conf, maestro, emitted, dropped, env, started, main,
                 admitted, fed>>

\* The exception a failing stage raises.
StageException(s) ==
  CASE s = "finder" -> "NotFound"
    [] s = "downloader" -> "Transport"
    [] s = "curdler" -> "BuildFailure"
    [] s = "dependencer" -> "MetadataFailure"
    [] s = "installer" -> "InstallFailure"
    [] OTHER -> "Transport"

Release(s, w) == [worker EXCEPT ![s][w] = IdleWorker]

Done(s, job) ==
  IF s = "downloader" THEN processing_packages \ {basename(job.url)}
  ELSE processing_packages

\* The history of the signals emitted.
Emit(e, s, signal, data) == [e EXCEPT ![s][signal][data.requirement] = @ + 1]

\* The stage work raises: the service emits failed.
Fail(s, w) ==
  /\ worker[s][w].pc = "work"
  /\ errors' = update_error_list(errors, worker[s][w].job, StageException(s))
  /\ worker' = Release(s, w)
  /\ processing_packages' = Done(s, worker[s][w].job)
  /\ emitted' = Emit(emitted, s, "failed", worker[s][w].job)
  /\ UNCHANGED <<conf, maestro, dropped, requirements, dependencies, stats,
                 wheels, repeated, squeue, started, main, admitted, fed>>

\* update_count as the last handler of a finished signal, run in one step:
\* the job is over.
Counted(s, w) ==
  /\ stats' = update_count(stats, s)
  /\ worker' = Release(s, w)

\* The data of the finished signal of a Finder worker.
FinderData(w) ==
  [worker["finder"][w].job EXCEPT
     !.url = FinderUrl(worker["finder"][w].job.requirement)]

\* Finder.finished, the handler connected first: unique(downloader.queue),
\* but for its increment of repeated.
FinderHandlers(w) ==
  /\ worker["finder"][w].pc = "work"
  /\ FinderData(w).url # None
  /\ IF unique(FinderData(w))
       THEN /\ squeue' = queue(squeue, "downloader", FinderData(w))
            /\ admitted' = Admit(admitted, "downloader", FinderData(w))
            /\ dropped' = dropped
       ELSE /\ dropped' = dropped + 1
            /\ UNCHANGED <<squeue, admitted>>
  /\ emitted' = Emit(emitted, "finder", "finished", FinderData(w))
  /\ UNCHANGED <<conf, maestro, requirements, dependencies, wheels, errors,
                 started, processing_packages, main, fed>>

\* Finder.finished: unique(downloader.queue), then update_count.
FinderFinished(w) ==
  /\ FinderHandlers(w)
  /\ repeated' = IF unique(FinderData(w)) THEN repeated ELSE repeated + 1
  /\ Counted("finder", w)

\* What the Downloader hands on: a wheel or a source archive.
Downloaded(job) ==
  IF IsWheelName(basename(job.url))
    THEN [job EXCEPT !.wheel = basename(job.url)]
    ELSE [job EXCEPT !.tarball = basename(job.url)]

\* Downloader.finished, the handlers connected first:
\* only(curdler.queue, 'tarball') and only(dependencer.queue, 'wheel').
DownloaderHandlers(w) ==
  LET data == Downloaded(worker["downloader"][w].job)
      q1 == IF only(data, "tarball") THEN queue(squeue, "curdler", data)
            ELSE squeue
      a1 == IF only(data, "tarball") THEN Admit(admitted, "curdler", data)
            ELSE admitted
  IN
    /\ worker["downloader"][w].pc = "work"
    /\ squeue' = IF only(data, "wheel") THEN queue(q1, "dependencer", data)
                 ELSE q1
    /\ admitted' = IF only(data, "wheel") THEN Admit(a1, "dependencer", data)
                   ELSE a1
    /\ processing_packages' = Done("downloader", worker["downloader"][w].job)
    /\ emitted' = Emit(emitted, "downloader", "finished", data)
    /\ UNCHANGED <<conf, maestro, dropped, requirements, dependencies, wheels,
                   errors, repeated, started, main, fed>>

\* Downloader.finished: the two only() handlers, then update_count.
DownloaderFinished(w) == DownloaderHandlers(w) /\ Counted("downloader", w)

\* Curdler.finished, the handler connected first: dependencer.queue.
CurdlerHandlers(w) ==
  LET data == [worker["curdler"][w].job EXCEPT
                 !.wheel = BuiltWheel(worker["curdler"][w].job.tarball)]
  IN
    /\ worker["curdler"][w].pc = "work"
    /\ squeue' = queue(squeue, "dependencer", data)
    /\ admitted' = Admit(admitted, "dependencer", data)
    /\ emitted' = Emit(emitted, "curdler", "finished", data)
    /\ UNCHANGED <<conf, maestro, dropped, requirements, dependencies, wheels,
                   errors, repeated, started, processing_packages, main, fed>>

\* Curdler.finished: dependencer.queue, then update_count.
CurdlerFinished(w) == CurdlerHandlers(w) /\ Counted("curdler", w)

\* The Dependencer read the wheel's metadata and starts to emit one
\* dependency_found per declared dependency.
DependencerRead(w) ==
  /\ worker["dependencer"][w].pc = "work"
  /\ worker' = [worker EXCEPT !["dependencer"][w].pc = "emit",
                  !["dependencer"][w].todo =
                     DeclaredDependencies(worker["dependencer"][w].job.wheel)]
  /\ UNCHANGED <<conf, maestro, emitted, dropped, env, squeue, started,
                 processing_packages, main, admitted, fed>>

\* The job of the dependency_found signal a Dependencer worker emits next.
Found(w) ==
  Job(Head(worker["dependencer"][w].todo),
      worker["dependencer"][w].job.requirement)

\* Dependencer.dependency_found: feed, up to its two early returns.
DependencyFound(w) ==
  /\ worker["dependencer"][w].pc = "emit"
  /\ worker["dependencer"][w].todo # << >>
  /\ worker' = IF feed_returns(Found(w))
                 THEN [worker EXCEPT !["dependencer"][w].todo = Tail(@)]
                 ELSE [worker EXCEPT !["dependencer"][w].pc = "feed_save"]
  /\ UNCHANGED <<conf, maestro, emitted, dropped, env, squeue, started,
                 processing_packages, main, admitted, fed>>

DependencyFoundSave(w) ==
  /\ worker["dependencer"][w].pc = "feed_save"
  /\ feed_save(Found(w))
  /\ worker' = [worker EXCEPT !["dependencer"][w].pc = "emit",
                              !["dependencer"][w].todo = Tail(@)]
  /\ main' = main

\* Dependencer.finished, the handler connected first: queue_install.
DependencerHandlers(w) ==
  /\ worker["dependencer"][w].pc = "emit"
  /\ worker["dependencer"][w].todo = << >>
  /\ wheels' = queue_install(wheels, worker["dependencer"][w].job)
  /\ emitted' = Emit(emitted, "dependencer", "finished",
                     worker["dependencer"][w].job)
  /\ UNCHANGED <<conf, maestro, dropped, requirements, dependencies, errors,
                 repeated, squeue, started, processing_packages, main,
                 admitted, fed>>

\* Dependencer.finished: queue_install, then update_count.
DependencerFinished(w) == DependencerHandlers(w) /\ Counted("dependencer", w)

\* Installer.finished has no handler before update_count.
InstallerHandlers(w) ==
  /\ worker["installer"][w].pc = "work"
  /\ emitted' = Emit(emitted, "installer", "finished",
                     worker["installer"][w].job)
  /\ UNCHANGED <<conf, maestro, dropped, requirements, dependencies, wheels,
                 errors, repeated, squeue, started, processing_packages, main,
                 admitted, fed>>

\* Installer.finished: update_count.
InstallerFinished(w) == InstallerHandlers(w) /\ Counted("installer", w)

\* The Installer's stage work raises: update_error_list.
InstallerFailed(w) == Fail("installer", w)

(***************************************************************************)
(* The Mapping: version reconciliation.                                    *)
(***************************************************************************)
Versions == {1, 2}

\* The versions a requirement's predicate accepts.
Predicate(r) ==
  CASE r = "lib==1" -> {1}
    [] r = "lib==2" -> {2}
    [] r = UrlX -> {2}
    [] OTHER -> Versions

\* The version of a built wheel.
WheelVersion(wheel) == IF wheel = "lib-2.whl" THEN 2 ELSE 1

\* The requester load_installer files a requirement with:
\* self.dependencies is a defaultdict(list).
DependencyOf(r) == IF r \in DOMAIN dependencies THEN dependencies[r] ELSE "[]"

\* Mapping.get_requirements_by_package_name, after load_installer filed
\* every requirement that has a wheel.
Filed(package_name) ==
  {r \in DOMAIN wheels : PackageName(r) = package_name}

\* The versions on file for the package that every filed predicate accepts.
Satisfying(package_name) ==
  {v \in {WheelVersion(wheels[r]) : r \in Filed(package_name)} :
     \A r \in Filed(package_name) : v \in Predicate(r)}

\* Mapping.best_version raises VersionConflict.
VersionConflict(package_name) == Satisfying(package_name) = {}

\* A total order on the requesters, for the tie-break: null first.
Rank(d) ==
  CASE d = None -> 0
    [] d = "App" -> 1
    [] d = "[]" -> 2
    [] d = "app" -> 3
    [] d = UrlX -> 4
    [] d = "lib==1" -> 5
    [] d = "lib==2" -> 6
    [] d = "lib>=1" -> 7
    [] OTHER -> 8

\* Mapping.best_version: the highest satisfying version and the filed
\* requirement that carries its wheel.
best_version(package_name) ==
  LET version == CHOOSE v \in Satisfying(package_name) :
                   \A u \in Satisfying(package_name) : u <= v
      carriers == {r \in Filed(package_name) :
                     WheelVersion(wheels[r]) = version}
  IN <<version,
       CHOOSE r \in carriers :
         \A o \in carriers :
            \/ Rank(DependencyOf(r)) < Rank(DependencyOf(o))
            \/ /\ Rank(DependencyOf(r)) = Rank(DependencyOf(o))
               /\ Rank(r) <= Rank(o)>>

(***************************************************************************)
(* Install.load_installer                                                  *)
(***************************************************************************)
package_names == {PackageName(r) : r \in DOMAIN wheels}

\* The error report: an entry per requirement filed under a package whose
\* versions conflict.
load_installer_errors ==
  {[package_name |-> PackageName(r), requirement |-> r,
    dependency_of |-> DependencyOf(r), exception |-> "VersionConflict"] :
     r \in {x \in DOMAIN wheels : VersionConflict(PackageName(x))}}

\* A slip in load_installer: the chosen requirement is queued without its
\* wheel.
InstallerJobWithoutWheel(package_name) ==
  Job(best_version(package_name)[2], None)

\* The job load_installer queues to the Installer for a package.
InstallerJob(package_name) ==
  [Job(best_version(package_name)[2], None) EXCEPT
     !.wheel = wheels[best_version(package_name)[2]]]

\* The orders in which a set can be walked.
Orders(S) ==
  {o \in [1..Cardinality(S) -> S] : \A i, j \in DOMAIN o : o[i] = o[j] => i = j}

\* The Installer's queue after the jobs of the packages in order o.
RECURSIVE QueueAll(_, _)
QueueAll(q, o) ==
  IF o = << >> THEN q
  ELSE QueueAll(Append(q, InstallerJob(Head(o))), Tail(o))

RECURSIVE AdmitAll(_, _)
AdmitAll(a, o) ==
  IF o = << >> THEN a
  ELSE AdmitAll(Admit(a, "installer", InstallerJob(Head(o))), Tail(o))

(***************************************************************************)
(* Install.retrieve_and_build                                              *)
(***************************************************************************)
\* A slip in the loop's test: the failed requirements are not counted.
LoopEndsWhenAllBuilt(total, built, failed) == total = built

\* The test that ends the polling loop.
LoopEnds(total, built, failed) == total = built + failed

MainPollTotal ==
  /\ main.pc = "poll_total"
  /\ main' = [main EXCEPT !.total = Cardinality(requirements), !.pc = "poll_built"]
  /\ UNCHANGED <<conf, maestro, emitted, dropped, env, squeue, worker, started, processing_packages,
                 admitted, fed>>

MainPollBuilt ==
  /\ main.pc = "poll_built"
  /\ main' = [main EXCEPT !.built = stats["dependencer"] + repeated,
                          !.pc = "poll_failed"]
  /\ UNCHANGED <<conf, maestro, emitted, dropped, env, squeue, worker, started, processing_packages,
                 admitted, fed>>

MainPollFailed ==
  /\ main.pc = "poll_failed"
  /\ main' = [main EXCEPT !.failed = Cardinality(DOMAIN errors),
                          !.pc = "poll_test"]
  /\ UNCHANGED <<conf, maestro, emitted, dropped, env, squeue, worker, started, processing_packages,
                 admitted, fed>>

\* if total == built + failed: break; else sleep and poll again.
MainPollTest ==
  /\ main.pc = "poll_test"
  /\ main' = [main EXCEPT !.pc =
                IF LoopEnds(main.total, main.built, main.failed)
                  THEN "load_installer" ELSE "poll_total"]
  /\ UNCHANGED <<conf, maestro, emitted, dropped, env, squeue, worker, started, processing_packages,
                 admitted, fed>>

\* After the loop: load_installer, and the report of its errors.
MainLoadInstaller ==
  /\ main.pc = "load_installer"
  /\ \E o \in Orders({n \in package_names : ~VersionConflict(n)}) :
       /\ squeue' = [squeue EXCEPT !["installer"] = QueueAll(@, o)]
       /\ admitted' = AdmitAll(admitted, o)
  /\ dependencies' =
       [r \in DOMAIN dependencies \cup DOMAIN wheels |-> DependencyOf(r)]
  /\ main' = [main EXCEPT
       !.pc = "run",
       !.report = load_installer_errors,
       !.chosen = IF load_installer_errors # {} THEN {} ELSE package_names,
       !.signals = IF load_installer_errors # {}
                     THEN Append(@, load_installer_errors) ELSE @]
  /\ UNCHANGED <<conf, maestro, emitted, dropped, requirements, stats, wheels, errors, repeated, worker,
                 started, processing_packages, fed>>

(***************************************************************************)
(* Install.run, Install.install, Install.upload                            *)
(***************************************************************************)
\* if packages: install(packages), which starts the Installer.
MainInstall ==
  /\ main.pc = "run"
  /\ main.chosen # {}
  /\ started' = started \cup {"installer"}
  /\ main' = [main EXCEPT !.pc = "install"]
  /\ UNCHANGED <<conf, maestro, emitted, dropped, env, squeue, worker, processing_packages, admitted, fed>>

MainNoInstall ==
  /\ main.pc = "run"
  /\ main.chosen = {}
  /\ main' = [main EXCEPT !.pc = "upload"]
  /\ UNCHANGED <<conf, maestro, emitted, dropped, env, squeue, worker, started, processing_packages,
                 admitted, fed>>

\* install's loop ends when every chosen package was counted as installed.
MainInstalled ==
  /\ main.pc = "install"
  /\ Cardinality(main.chosen) = stats["installer"]
  /\ main' = [main EXCEPT !.pc = "upload"]
  /\ UNCHANGED <<conf, maestro, emitted, dropped, env, squeue, worker, started, processing_packages,
                 admitted, fed>>

\* The package names the Finder recorded as missing on some server.
ServersToUpdate ==
  SUBSET {PackageName(r) : r \in {x \in Raw : admitted["finder"][x] > 0}}

\* if not self.errors and conf.upload: upload(). load_uploader starts the
\* Uploader and reads self.maestro, an attribute Install never sets.
MainUpload ==
  /\ main.pc = "upload"
  /\ IF DOMAIN errors = {} /\ conf.upload
       THEN \E failures \in ServersToUpdate :
              IF failures = {}
                THEN /\ main' = [main EXCEPT !.pc = "finished"]
                     /\ started' = started
                ELSE /\ main' = [main EXCEPT !.pc = "AttributeError"]
                     /\ started' = started \cup {"uploader"}
       ELSE /\ main' = [main EXCEPT !.pc = "finished"]
            /\ started' = started
  /\ UNCHANGED <<conf, maestro, emitted, dropped, env, squeue, worker, processing_packages, admitted, fed>>

\* return self.emit('finished')
MainFinished ==
  /\ main.pc = "finished"
  /\ main' = [main EXCEPT !.pc = "done", !.signals = Append(@, {})]
  /\ UNCHANGED <<conf, maestro, emitted, dropped, env, squeue, worker, started, processing_packages,
                 admitted, fed>>

Next ==
  \/ MainStart
  \/ MainFeed
  \/ MainFeedSave
  \/ MainRun
  \/ MainPollTotal
  \/ MainPollBuilt
  \/ MainPollFailed
  \/ MainPollTest
  \/ MainLoadInstaller
  \/ MainInstall
  \/ MainNoInstall
  \/ MainInstalled
  \/ MainUpload
  \/ MainFinished
  \/ \E s \in Services, w \in Workers : Take(s, w)
  \/ \E s \in PipelineServices, w \in Workers : Fail(s, w)
  \/ \E w \in Workers : FinderFinished(w)
  \/ \E w \in Workers : DownloaderFinished(w)
  \/ \E w \in Workers : CurdlerFinished(w)
  \/ \E w \in Workers : DependencerRead(w)
  \/ \E w \in Workers : DependencyFound(w)
  \/ \E w \in Workers : DependencyFoundSave(w)
  \/ \E w \in Workers : DependencerFinished(w)
  \/ \E w \in Workers : InstallerFinished(w)
  \/ \E w \in Workers : InstallerFailed(w)

Spec == Init /\ [][Next]_vars

(***************************************************************************)
(* Fair scheduling: the main thread and every worker thread keep running.  *)
(***************************************************************************)
MainStep ==
  \/ MainStart \/ MainFeed \/ MainFeedSave \/ MainRun
  \/ MainPollTotal \/ MainPollBuilt \/ MainPollFailed \/ MainPollTest
  \/ MainLoadInstaller \/ MainInstall \/ MainNoInstall \/ MainInstalled
  \/ MainUpload \/ MainFinished

\* The steps of worker w of service s when its stage work succeeds.
WorkerStep(s, w) ==
  \/ Take(s, w)
  \/ s = "finder" /\ FinderFinished(w)
  \/ s = "downloader" /\ DownloaderFinished(w)
  \/ s = "curdler" /\ CurdlerFinished(w)
  \/ s = "dependencer" /\ (\/ DependencerRead(w) \/ DependencyFound(w)
                           \/ DependencyFoundSave(w) \/ DependencerFinished(w))
  \/ s = "installer" /\ InstallerFinished(w)

\* A job's stage work ends: it succeeds or it raises.
WorkerEnds(s, w) == WorkerStep(s, w) \/ Fail(s, w)

FairSpec ==
  /\ Spec
  /\ WF_vars(MainStep)
  /\ \A s \in Services, w \in Workers : WF_vars(WorkerEnds(s, w))

(***************************************************************************)
(* The handlers once more, with each `+= 1` of a shared counter as the two *)
(* steps it is: the thread reads the counter and, later, stores the value  *)
(* it read plus one. Install holds no lock in between, and the handlers    *)
(* run on the worker threads of the emitting service.                      *)
(***************************************************************************)
\* The packages of these runs: two requirements that meet in the Finder and
\* resolve to the same archive name, and a wheel that declares dependencies.
RaceScenarios ==
  {[packages |-> <<"lib==2", "lib>=1">>, index |-> EmptyIndex, upload |-> FALSE],
   [packages |-> <<"app">>, index |-> IndexWithWheel, upload |-> FALSE]}

RaceInit == \E sc \in RaceScenarios : InstallInit(sc)

\* The handlers before a `+= 1` have run, and the thread has read the
\* counter's value.
Reading(s, w, counter, value) ==
  worker' = [worker EXCEPT ![s][w].pc = counter, ![s][w].read = value]

\* Finder.finished: unique(downloader.queue) up to the read of
\* install.repeated, or to update_count's read of self.stats[name].
RaceFinderFinished(w) ==
  /\ FinderHandlers(w)
  /\ UNCHANGED <<repeated, stats>>
  /\ IF unique(FinderData(w))
       THEN Reading("finder", w, "count", stats["finder"])
       ELSE Reading("finder", w, "repeated", repeated)

\* install.repeated += 1, the store; update_count comes next.
RaceRepeated(w) ==
  /\ worker["finder"][w].pc = "repeated"
  /\ repeated' = worker["finder"][w].read + 1
  /\ Reading("finder", w, "count", stats["finder"])
  /\ UNCHANGED <<conf, maestro, emitted, dropped, requirements, dependencies,
                 stats, wheels, errors, squeue, started, processing_packages,
                 main, admitted, fed>>

RaceDownloaderFinished(w) ==
  /\ DownloaderHandlers(w)
  /\ stats' = stats
  /\ Reading("downloader", w, "count", stats["downloader"])

RaceCurdlerFinished(w) ==
  /\ CurdlerHandlers(w)
  /\ stats' = stats
  /\ Reading("curdler", w, "count", stats["curdler"])

RaceDependencerFinished(w) ==
  /\ DependencerHandlers(w)
  /\ stats' = stats
  /\ Reading("dependencer", w, "count", stats["dependencer"])

RaceInstallerFinished(w) ==
  /\ InstallerHandlers(w)
  /\ stats' = stats
  /\ Reading("installer", w, "count", stats["installer"])

\* self.stats[name] += 1, the store: the job is over.
RaceCounted(s, w) ==
  /\ worker[s][w].pc = "count"
  /\ stats' = [stats EXCEPT ![s] = worker[s][w].read + 1]
  /\ worker' = Release(s, w)
  /\ UNCHANGED <<conf, maestro, emitted, dropped, requirements, dependencies,
                 wheels, errors, repeated, squeue, started,
                 processing_packages, main, admitted, fed>>

RaceNext ==
  \/ MainStep
  \/ \E s \in Services, w \in Workers : Take(s, w)
  \/ \E s \in PipelineServices, w \in Workers : Fail(s, w)
  \/ \E w \in Workers : RaceFinderFinished(w)
  \/ \E w \in Workers : RaceRepeated(w)
  \/ \E w \in Workers : RaceDownloaderFinished(w)
  \/ \E w \in Workers : RaceCurdlerFinished(w)
  \/ \E w \in Workers : DependencerRead(w)
  \/ \E w \in Workers : DependencyFound(w)
  \/ \E w \in Workers : DependencyFoundSave(w)
  \/ \E w \in Workers : RaceDependencerFinished(w)
  \/ \E w \in Workers : RaceInstallerFinished(w)
  \/ \E w \in Workers : InstallerFailed(w)
  \/ \E s \in Services, w \in Workers : RaceCounted(s, w)

RaceSpec == RaceInit /\ [][RaceNext]_vars

(***************************************************************************)
(* The Maestro (curdling.maestro), as its unit tests use it.               *)
(***************************************************************************)
\* The packages the unit tests file.
MaestroPackages ==
  {"curdling", "sure (== 0.1.2)", "forbiddenfruit (> 0.1.0)",
   "forbiddenfruit (>= 0.1.2)"}

\* The name a package is filed under: the key of Maestro.mapping.
MaestroName(package) ==
  CASE package = "curdling" -> "curdling"
    [] package = "sure (== 0.1.2)" -> "sure"
    [] OTHER -> "forbiddenfruit"

\* The version constraint a package is filed with: the key under its name.
MaestroConstraint(package) ==
  CASE package = "curdling" -> None
    [] package = "sure (== 0.1.2)" -> "== 0.1.2"
    [] package = "forbiddenfruit (> 0.1.0)" -> "> 0.1.0"
    [] OTHER -> ">= 0.1.2"

\* The variables of the Install, which the Maestro does not touch.
install ==
  <<conf, requirements, dependencies, stats, wheels, errors, repeated, squeue,
    worker, started, processing_packages, main, admitted, emitted, dropped,
    fed>>

\* The package was filed: mapping[name][constraint] exists.
MaestroFiled(package) ==
  /\ MaestroName(package) \in DOMAIN maestro.mapping
  /\ MaestroConstraint(package) \in
       DOMAIN maestro.mapping[MaestroName(package)]

\* Maestro.file_package
file_package(package, dependency_of) ==
  LET name == MaestroName(package)
      entries == IF name \in DOMAIN maestro.mapping
                   THEN maestro.mapping[name] ELSE [c \in {} |-> None]
  IN
    /\ maestro' = [maestro EXCEPT
         !.mapping = Put(@, name,
                         Put(entries, MaestroConstraint(package),
                             [dependency_of |-> dependency_of, data |-> None])),
         !.calls = @ \cup {<<"file_package", MaestroName(package)>>}]
    /\ UNCHANGED install

\* Maestro.mapping after the data of a filed package is set.
MaestroSetData(package, data) ==
  [maestro.mapping EXCEPT
     ![MaestroName(package)][MaestroConstraint(package)].data = data]

\* Maestro.mark_built, of a package that was filed.
mark_built(package, data) ==
  /\ MaestroFiled(package)
  /\ maestro' = [maestro EXCEPT
       !.built = @ \cup {MaestroName(package)},
       !.mapping = MaestroSetData(package, data),
       !.calls = @ \cup {<<"mark_built", MaestroName(package)>>}]
  /\ UNCHANGED install

\* A slip in mark_failed: the package is put with the built ones.
mark_failed_as_built(package, data) ==
  /\ MaestroFiled(package)
  /\ maestro' = [maestro EXCEPT
       !.built = @ \cup {MaestroName(package)},
       !.mapping = MaestroSetData(package, data),
       !.calls = @ \cup {<<"mark_failed", MaestroName(package)>>}]
  /\ UNCHANGED install

\* Maestro.mark_failed, of a package that was filed.
mark_failed(package, data) ==
  /\ MaestroFiled(package)
  /\ maestro' = [maestro EXCEPT
       !.failed = @ \cup {MaestroName(package)},
       !.mapping = MaestroSetData(package, data),
       !.calls = @ \cup {<<"mark_failed", MaestroName(package)>>}]
  /\ UNCHANGED install

\* Maestro.should_queue
should_queue(package) == MaestroName(package) \notin DOMAIN maestro.mapping

\* Maestro.pending_packages
pending_packages ==
  DOMAIN maestro.mapping \ (maestro.built \cup maestro.failed)

\* A Maestro next to an Install that is left as constructed.
MaestroInit ==
  InstallInit([packages |-> << >>, index |-> EmptyIndex, upload |-> FALSE])

MaestroNext ==
  \/ \E package \in MaestroPackages, dependency_of \in {None, "curdling"} :
       file_package(package, dependency_of)
  \/ \E package \in MaestroPackages : mark_built(package, "/curds/package.whl")
  \/ \E package \in MaestroPackages : mark_failed(package, "")

MaestroSpec == MaestroInit /\ [][MaestroNext]_vars

(***************************************************************************)
(* Properties.                                                             *)
(***************************************************************************)
\* The retrieve-and-build polling loop is running.
Polling == main.pc \in {"poll_total", "poll_built", "poll_failed", "poll_test"}

\* The termination predicate, on the shared state.
AllTerminal ==
  Cardinality(requirements) =
    stats["dependencer"] + repeated + Cardinality(DOMAIN errors)

\* No job is queued or in progress in the retrieve-and-build services.
Quiescent ==
  \A s \in PipelineServices :
    /\ squeue[s] = << >>
    /\ \A w \in Workers : worker[s][w].pc = "idle"

\* C1: every requirement is queued by feed at most once, whatever the
\* interleaving of the feed calls that carry it (the main thread's requests
\* and the dependency_found callbacks of the Dependencer's workers).
C1_QueuedAtMostOnce == \A r \in Raw : fed[r] <= 1

\* The service the routing rules of C2 name for a requirement.
C2_Rule(r) ==
  CASE r \in DOMAIN conf.index.whl -> "dependencer"
    [] r \notin DOMAIN conf.index.whl /\ r \in DOMAIN conf.index.src -> "curdler"
    [] r \notin DOMAIN conf.index.whl /\ r \notin DOMAIN conf.index.src
         /\ r \in Urls -> "downloader"
    [] OTHER -> "finder"

\* C2: a feed that saves a requirement queues exactly one job, to exactly
\* one service, the one of the first rule that matches (wheel in the index,
\* source in the index, URL, none of these); and a requirement with a wheel
\* in the index never reaches the Finder, the Downloader or the Builder.
C2_FeedRoutes ==
  /\ [][fed' # fed =>
          \E s \in Services, r \in Raw :
            /\ s = C2_Rule(r)
            /\ fed' = [fed EXCEPT ![safe_name(r)] = @ + 1]
            /\ admitted' = [admitted EXCEPT ![s][r] = @ + 1]
            /\ squeue' = [squeue EXCEPT ![s] = Append(@, squeue'[s][Len(squeue'[s])])]
            /\ squeue'[s][Len(squeue'[s])].requirement = r]_vars
  /\ [](\A r \in DOMAIN conf.index.whl, s \in {"finder", "downloader", "curdler"} :
          admitted[s][r] = 0)

\* C2 happens: a requirement with a wheel and a source archive in the index
\* was fed and went to the Dependencer.
C2_Witness ==
  \E r \in DOMAIN conf.index.whl \cap DOMAIN conf.index.src :
    fed[safe_name(r)] = 1 /\ admitted["dependencer"][r] = 1

\* A requirement C3 speaks of: not a URL, its package name blacklisted.
C3_Blacklisted(r) ==
  safe_name(r) \notin Urls /\ PackageName(safe_name(r)) \in PACKAGE_BLACKLIST

\* C3: no blacklisted requirement is ever in the requirement set, and the
\* feed of one, by the main thread (a root) or by a Dependencer worker (a
\* dependency), queues nothing and leaves the Install's state unchanged.
C3_BlacklistDropped ==
  /\ [](\A r \in requirements : ~C3_Blacklisted(r))
  /\ [][/\ main.pc = "request" /\ main.packages # << >>
        /\ C3_Blacklisted(Head(main.packages)) /\ main' # main
        => /\ UNCHANGED <<env, squeue, admitted, fed>>
           /\ main' = [main EXCEPT !.packages = Tail(@)]]_vars
  /\ [][\A w \in Workers :
          /\ worker["dependencer"][w].pc = "emit"
          /\ worker["dependencer"][w].todo # << >>
          /\ C3_Blacklisted(Head(worker["dependencer"][w].todo))
          /\ worker'["dependencer"][w] # worker["dependencer"][w]
          => /\ UNCHANGED <<env, squeue, admitted, fed>>
             /\ worker'["dependencer"][w] =
                  [worker["dependencer"][w] EXCEPT !.todo = Tail(@)]]_vars

\* C3 happens: the blacklisted root "Setuptools" was fed and dropped, and
\* the wheel of "app" declared the blacklisted dependency, dropped as well.
C3_Witness ==
  \/ /\ main.pc = "request" /\ main.packages = <<"lib==1">>
     /\ requirements = {} /\ squeue = [s \in Services |-> << >>]
  \/ \E w \in Workers :
       /\ worker["dependencer"][w].pc = "emit"
       /\ worker["dependencer"][w].job.wheel = "app-1.whl"
       /\ worker["dependencer"][w].todo = << >>

\* The URL with which a requirement reaches the Downloader.
DownloadUrl(r) == IF is_url(r) THEN r ELSE FinderUrl(r)

\* C4: of the URLs that share a basename the Downloader admits at most one
\* (here: of two different requirements, each queued by feed once).
C4_OneAdmittedPerBasename ==
  (\A r \in Raw : fed[r] <= 1) =>
    \A r1, r2 \in Raw :
      /\ admitted["downloader"][r1] > 0
      /\ admitted["downloader"][r2] > 0
      /\ basename(DownloadUrl(r1)) = basename(DownloadUrl(r2))
      => r1 = r2

\* C5: no two Builder jobs for the same source archive are in progress at
\* the same time (here: when feed queued each requirement once).
C5_OneBuildPerSource ==
  (\A r \in Raw : fed[r] <= 1) =>
    \A v, w \in Workers :
      /\ worker["curdler"][v].pc = "work"
      /\ worker["curdler"][w].pc = "work"
      /\ worker["curdler"][v].job.tarball = worker["curdler"][w].job.tarball
      => v = w

\* C6: the polling loop ends at a poll exactly when the values read at
\* that poll satisfy total == built + failed, where total, built and failed
\* are |requirements|, count(dependencer) + repeated and |errors|; and the
\* loop ends nowhere else.
C6_LoopEndsIffEqual ==
  /\ [][main.pc = "poll_total" /\ main' # main
        => main'.total = Cardinality(requirements)]_vars
  /\ [][main.pc = "poll_built" /\ main' # main
        => main'.built = stats["dependencer"] + repeated]_vars
  /\ [][main.pc = "poll_failed" /\ main' # main
        => main'.failed = Cardinality(DOMAIN errors)]_vars
  /\ [][main.pc = "poll_test" /\ main' # main
        => /\ main'.pc \in {"load_installer", "poll_total"}
           /\ main'.pc = "load_installer"
                <=> main.total = main.built + main.failed]_vars
  /\ [][Polling /\ ~Polling' => main.pc = "poll_test"]_vars

\* C6 happens: the loop ended at a poll that counted a finished and a
\* failed requirement.
C6_Witness ==
  /\ main.pc = "load_installer"
  /\ main.built > 0 /\ main.failed > 0
  /\ main.total = main.built + main.failed

\* C7: while the loop polls, whenever the termination predicate holds no
\* job is queued or in progress in the Finder, Downloader, Builder or
\* Dependencer.
C7_StableOnceTrue == Polling /\ AllTerminal => Quiescent

\* C8: under fair scheduling the retrieve-and-build loop eventually ends.
C8_LoopEnds == <>(main.pc \notin {"start", "request", "feed_save"} /\ ~Polling)

\* C9: when the loop ended at a poll that read a non-empty error map, the
\* Installer is never started.
C9_ErrorsSuppressInstall ==
  main.failed > 0 /\ ~Polling => "installer" \notin started

\* C10: when run() returns and a requirement failed or a conflict was
\* found, the last finished signal carries the non-empty error report.
C10_LastSignalCarriesErrors ==
  main.pc = "done" /\ (DOMAIN errors # {} \/ main.report # {})
    => main.signals[Len(main.signals)] # {}

\* The jobs a step appends to the Installer's queue.
C11_Queued ==
  SubSeq(squeue'["installer"], Len(squeue["installer"]) + 1,
         Len(squeue'["installer"]))

\* Some version on file for the package satisfies every predicate filed
\* under it.
C11_Reconcilable(P) ==
  \E c \in DOMAIN wheels :
    /\ PackageName(c) = P
    /\ \A r \in DOMAIN wheels :
         PackageName(r) = P => WheelVersion(wheels[c]) \in Predicate(r)

\* C11: load_installer, for every package name P among the built
\* requirements: either some version satisfies every predicate filed under
\* P, and exactly one Installer job is queued for P, carrying a filed
\* requirement of P with that requirement's wheel, of a version that
\* satisfies every predicate, and the report has no entry under P; or none
\* does, no Installer job is queued for P, and every requirement filed under
\* P is in the report under P with the dependency_of it was filed with.
C11_OneJobOrAllReported ==
  [][main.pc = "load_installer" /\ main'.pc # "load_installer" =>
       \A P \in {PackageName(r) : r \in DOMAIN wheels} :
         LET jobs == {i \in DOMAIN C11_Queued :
                        PackageName(C11_Queued[i].requirement) = P}
             entries == {e \in main'.report : e.package_name = P}
         IN IF C11_Reconcilable(P)
              THEN /\ Cardinality(jobs) = 1
                   /\ entries = {}
                   /\ \A i \in jobs :
                        /\ C11_Queued[i].requirement \in DOMAIN wheels
                        /\ C11_Queued[i].wheel =
                             wheels[C11_Queued[i].requirement]
                        /\ \A r \in DOMAIN wheels :
                             PackageName(r) = P =>
                               WheelVersion(C11_Queued[i].wheel) \in Predicate(r)
              ELSE /\ jobs = {}
                   /\ \A r \in DOMAIN wheels :
                        PackageName(r) = P =>
                          \E e \in entries :
                            /\ e.requirement = r
                            /\ e.dependency_of =
                                 (IF r \in DOMAIN dependencies
                                    THEN dependencies[r] ELSE "[]")
                   /\ \A e \in entries :
                        e.requirement \in DOMAIN wheels
                          /\ PackageName(e.requirement) = P]_vars

\* C11 happens: load_installer found one package reconcilable and queued
\* its job, and reported the two conflicting requirements of another.
C11_Witness ==
  /\ main.pc = "run"
  /\ Len(squeue["installer"]) = 1
  /\ squeue["installer"][1].requirement = "app"
  /\ {e.requirement : e \in main.report} = {"lib==1", "lib==2"}

\* The finished events a service emitted for a requirement.
Finished(s, r) == emitted[s]["finished"][r]

\* C12: every Dependencer finished event for R is preceded by a completion
\* of R's Builder stage whenever R has a Builder stage, and every completion
\* of R's Builder stage is preceded by a completion of R's Downloader stage.
C12_CausalOrder ==
  \A r \in Raw :
    /\ admitted["curdler"][r] > 0 =>
         Finished("dependencer", r) <= Finished("curdler", r)
    /\ Finished("curdler", r) <= Finished("downloader", r)

\* C12 as amended: the Builder's completion is preceded by the Downloader's
\* whenever R has a Downloader stage.
C12_CausalOrderOfTheStagesTaken ==
  \A r \in Raw :
    /\ admitted["curdler"][r] > 0 =>
         Finished("dependencer", r) <= Finished("curdler", r)
    /\ admitted["downloader"][r] > 0 =>
         Finished("curdler", r) <= Finished("downloader", r)

\* C12 happens: the Dependencer finished a requirement that was found,
\* downloaded and built.
C12_Witness ==
  \E r \in Raw :
    /\ Finished("dependencer", r) > 0
    /\ Finished("curdler", r) > 0
    /\ Finished("downloader", r) > 0
    /\ Finished("finder", r) > 0

\* The sum of a function's values over the requirements in S.
RECURSIVE Sum(_, _)
Sum(f, S) ==
  IF S = {} THEN 0
  ELSE LET r == CHOOSE x \in S : TRUE IN f[r] + Sum(f, S \ {r})

\* C13: for every service, the finished events counted in stats plus the
\* failed events are at most the jobs admitted.
C13_CountersWithinAdmitted ==
  \A s \in Services :
    stats[s] + Sum(emitted[s]["failed"], Raw) <= Sum(admitted[s], Raw)

\* C13 happens: a service finished one job and failed another, and these
\* are all the jobs it admitted.
C13_Witness ==
  \E s \in Services :
    /\ stats[s] > 0
    /\ Sum(emitted[s]["failed"], Raw) > 0
    /\ stats[s] + Sum(emitted[s]["failed"], Raw) = Sum(admitted[s], Raw)

\* C14: a feed of a requirement that is already in the requirement set, by
\* the main thread or by a Dependencer worker (with another dependency_of),
\* returns at once: it queues no job and leaves requirements, dependencies,
\* wheels, errors, stats and repeated as they are.
C14_FeedIdempotent ==
  /\ [][/\ main.pc = "request" /\ main.packages # << >>
        /\ safe_name(Head(main.packages)) \in requirements
        /\ main' # main
        => /\ UNCHANGED <<env, squeue, admitted, fed>>
           /\ main' = [main EXCEPT !.packages = Tail(@)]]_vars
  /\ [][\A w \in Workers :
          /\ worker["dependencer"][w].pc = "emit"
          /\ worker["dependencer"][w].todo # << >>
          /\ safe_name(Head(worker["dependencer"][w].todo)) \in requirements
          /\ worker'["dependencer"][w] # worker["dependencer"][w]
          => /\ UNCHANGED <<env, squeue, admitted, fed>>
             /\ worker'["dependencer"][w] =
                  [worker["dependencer"][w] EXCEPT !.todo = Tail(@)]]_vars

\* C14 happens: the main thread fed lib==1, and the feed of lib==1 as a
\* dependency of app was dropped: one job, and the first requester kept.
C14_Witness ==
  \E w \in Workers :
    /\ worker["dependencer"][w].pc = "emit"
    /\ worker["dependencer"][w].job.requirement = "app"
    /\ worker["dependencer"][w].todo = <<"Setuptools">>
    /\ fed["lib==1"] = 1
    /\ "lib==1" \in DOMAIN dependencies /\ dependencies["lib==1"] = None

\* C15: from one state to the next the size of the errors map never
\* decreases, and no requirement leaves the requirement set.
C15_ErrorsAndRequirementsGrow ==
  [][/\ Cardinality(DOMAIN errors') >= Cardinality(DOMAIN errors)
     /\ requirements \subseteq requirements']_vars

\* C15 happens: two requirements failed, one after the other, and a
\* dependency joined the requirement set.
C15_Witness ==
  /\ Cardinality(DOMAIN errors) = 2
  /\ Cardinality(requirements) = 3

\* The names of the packages on which an operation of the Maestro was called.
C16_Called(op) ==
  {c[2] : c \in {x \in maestro.calls : x[1] = op}}

C17_InstallEnds == (main.pc = "install") ~> (main.pc # "install")

\* No worker of the service is between the read and the store of a `+= 1`.
C18_Settled(s) ==
  \A w \in Workers : worker[s][w].pc \notin {"repeated", "count"}

\* C18: no update of the shared state is lost, whatever the interleaving of
\* the handlers: once the handlers of a service's signals have returned,
\* stats[S] is the number of finished events S emitted and repeated is the
\* number of times the uniqueness guard fired; and errors has an entry for
\* every requirement that emitted a failed event.
C18_NoLostUpdate ==
  /\ \A s \in Services :
       C18_Settled(s) => stats[s] = Sum(emitted[s]["finished"], Raw)
  /\ C18_Settled("finder") => repeated = dropped
  /\ \A s \in Services, r \in Raw :
       emitted[s]["failed"][r] > 0 => r \in DOMAIN errors

\* The requirement has reached an end the Install object recorded: a wheel
\* in wheels or an exception in errors.
C19_Recorded(r) ==
  \E k \in DOMAIN wheels \cup DOMAIN errors : safe_name(k) = r

\* C19: when the retrieve-and-build loop has ended, every requirement of
\* the requirement set has a wheel in wheels or an exception in errors.
C19_TerminalHasWheelOrError ==
  main.pc = "load_installer" => \A r \in requirements : C19_Recorded(r)

\* C20: under fair scheduling, once load_uploader has found packages to
\* upload and started the Uploader, the upload phase ends and the run
\* returns.
C20_UploadEnds == ("uploader" \in started) ~> (main.pc = "done")

====
